---- MODULE Spec2Model ----
(***************************************************************************)
(* A model of asym-rlpo: the POE_ADQN episodic loss and acting policies    *)
(* (asym_rlpo/algorithms/poe_adqn.py) and the training run of main_a2c.py  *)
(* (main, run, run_epoch, checkpointing).                                  *)
(*                                                                         *)
(* Tensors are sequences indexed from 1 (timestep t of the code is index   *)
(* t+1); a vector of Q-values is a function over Actions.  Floating-point  *)
(* values are exact rationals [num, den].  An optional value (None in the  *)
(* code) is the empty sequence, a present value v is <<v>>.                *)
(***************************************************************************)
EXTENDS Integers, Sequences, FiniteSets, TLC

VARIABLES
    \* ---- acting policies: two runs side by side (poe_adqn.py 171-223)
    bpA, bpB,          \* the BehaviorPolicy object of each run
    latA, latB,        \* the privileged latent state of each run's environment
    actA, actB,        \* the last greedy action of each run's target policy
    bactA, bactB,      \* the last action of each run's behavior policy
    calls,             \* the reset and step calls made since the last reset
    inputs_fed,        \* the inputs given to the history model by those calls
    \* ---- episodic loss (poe_adqn.py 46-165)
    models,            \* self.models: the online parameters
    target_models,     \* self.target_models
    discount,          \* the discount argument
    episode,           \* the episode of the current loop iteration
    lens,              \* lengths of the episodes processed so far
    losses,            \* the list `losses`
    loss,              \* the returned loss, once returned
    \* ---- the training run (main_a2c.py)
    pc,                \* the position of the process in main/run/run_epoch
    launch,            \* how many times the program has been launched
    args,              \* the parsed command line of this launch
    config,            \* the dict of the Config singleton
    disk,              \* the files under the run path
    checkpoint,        \* main's local: the loaded checkpoint, if any
    loaded,            \* the checkpoint as load_data returned it in this launch
    runstate,          \* the Runstate of this launch
    runflags,          \* run's Runflags
    controlflow,       \* run's Controlflow
    sim_episodes,      \* run_epoch's local: lengths of the simulated episodes
    retvalue,          \* main's return value, once returned
    saved_at,          \* xstats.epoch at the last save_checkpoint call of this launch
    epoch_steps,       \* the calls run_epoch has made in its current call, in order
    wandb_kwargs,      \* main's local: the resume arguments given to wandb.init
    exception,         \* the exception that ended this launch, if any
    \* ---- the Config singleton (asym_rlpo/utils/config.py)
    config_global,     \* the module global _config: None or a Config object
    config_objects,    \* the Config objects: for each, the dict self._config
    dicts,             \* the dict objects: for each, its entries
    refs,              \* the objects returned by the calls of get_config()
    snapshots,         \* the dicts returned by the calls of _as_dict()
    last_op            \* the last operation on the configuration

polVars == <<bpA, bpB, latA, latB, actA, actB, bactA, bactB, calls, inputs_fed>>
lossVars == <<models, target_models, discount, episode, lens, losses, loss>>
runVars == <<pc, launch, args, config, disk, checkpoint, runstate, runflags,
             controlflow, sim_episodes, retvalue, saved_at, epoch_steps,
             wandb_kwargs, exception, loaded>>
cfgVars == <<config_global, config_objects, dicts, refs, snapshots, last_op>>
vars == <<polVars, lossVars, runVars, cfgVars>>

----------------------------------------------------------------------------
(* Bounds and small input sets *)

\* longest episode fed to episodic_loss or acted by the policies
MaxLen == 2
\* how many references to the configuration the callers hold
MaxRefs == 2
\* how many snapshots of the configuration are taken
MaxSnapshots == 1
\* how many times the program is launched on the same run path
MaxLaunches == 2
\* config.max_simulation_timesteps
MaxSimulationTimesteps == 3
\* config.max_episode_timesteps: the longest simulated episode
MaxEpisodeTimesteps == 2

Actions == {0, 1}
Observations == {0, 1}
Latents == {0, 1}
\* a privileged state is the observable part together with a latent part
States == [obs : Observations, latent : Latents]
Thetas == {0, 1}
\* the numbers of episodes episodic_loss is called with
BatchSizes == {1, 2}

None == <<>>
Some(v) == <<v>>

----------------------------------------------------------------------------
(* Exact rationals standing for the float tensors *)

Abs(n) == IF n < 0 THEN -n ELSE n

RECURSIVE GCD(_, _)
GCD(a, b) == IF b = 0 THEN a ELSE GCD(b, a % b)

Rat(n, d) ==
    LET g == GCD(Abs(n), d) IN [num |-> n \div g, den |-> d \div g]
RInt(n) == [num |-> n, den |-> 1]
RAdd(a, b) == Rat(a.num * b.den + b.num * a.den, a.den * b.den)
RSub(a, b) == Rat(a.num * b.den - b.num * a.den, a.den * b.den)
RMul(a, b) == Rat(a.num * b.num, a.den * b.den)
RDivInt(a, k) == Rat(a.num, a.den * k)
\* a < b, for rationals with positive denominators
RLess(a, b) == a.num * b.den < b.num * a.den

RECURSIVE RSum(_)
RSum(s) == IF s = <<>> THEN RInt(0) ELSE RAdd(Head(s), RSum(Tail(s)))

----------------------------------------------------------------------------
(* Tensor operations of torch used by the code *)

\* tensor.roll(shift, 0): the element at index i moves to index i + shift,
\* wrapping around the ends
Roll(s, shift) ==
    [i \in 1..Len(s) |-> s[((i - 1 - shift) % Len(s)) + 1]]

\* q.argmax(): the first index holding the maximum
ArgMax(q) ==
    CHOOSE a \in DOMAIN q :
        /\ \A b \in DOMAIN q : q[b] <= q[a]
        /\ \A b \in DOMAIN q : q[b] = q[a] => a <= b

\* values.gather(1, index.unsqueeze(-1)).squeeze(-1)
Gather(values, index) == [t \in 1..Len(values) |-> values[t][index[t]]]

\* self.where(condition, other): self where the condition holds, else other
Where(selfval, condition, other) ==
    [t \in 1..Len(other) |-> IF condition[t] THEN selfval ELSE other[t]]

\* F.mse_loss(input, target), reduction 'mean'
mse_loss(input, target) ==
    RDivInt(RSum([t \in 1..Len(input) |->
                    RMul(RSub(input[t], target[t]), RSub(input[t], target[t]))]),
            Len(input))

----------------------------------------------------------------------------
(* The models of make_models_box2d, as small total functions.  A parameter  *)
(* record holds one parameter per trainable sub-model.                      *)

ModelParams == [history_model : Thetas, qh_model : Thetas, qhs_model : Thetas]

\* OneHotRepresentation: 0 is the zero vector, a + 1 the one-hot vector of a
action_model(a) == a + 1
action_model_zeros == 0
\* IdentityRepresentation
observation_model(o) == o
state_model(s) == s

\* one step of the tanh RNN cell: the new hidden state from the old one and
\* the input <<action features, observation features>>
RNNCell(m, h, x) == (3 * h + x[1] + 3 * x[2] + m.history_model) % 7

RECURSIVE rnn_scan(_, _, _)
rnn_scan(m, inputs, h) ==
    IF inputs = <<>> THEN <<>>
    ELSE LET h1 == RNNCell(m, h, Head(inputs))
         IN <<h1>> \o rnn_scan(m, Tail(inputs), h1)

\* history_model(inputs, hidden=hidden): the features of every step and the
\* final hidden state; an absent hidden state is the zero state
history_model(m, inputs, hidden) ==
    LET h0 == IF hidden = None THEN 0 ELSE hidden[1]
        feats == rnn_scan(m, inputs, h0)
    IN [features |-> feats, hidden |-> Some(feats[Len(feats)])]

qh_model(m, hf) ==
    [a \in Actions |-> ((hf + m.qh_model) * (a + 1) + a) % 3]

\* the input is cat([history_features, state_features])
qhs_model(m, hf, sf) ==
    [a \in Actions |->
        ((hf + sf.obs + 2 * sf.latent + m.qhs_model) * (a + 1) + 2 * a) % 3]

----------------------------------------------------------------------------
(* TargetPolicy and BehaviorPolicy *)

\* TargetPolicy.__init__
TargetPolicy_init(m) ==
    [models |-> m, history_features |-> None, hidden |-> None]

\* TargetPolicy._update: input_features, the concatenation of the two
TargetPolicy_update_input(action_features, observation_features) ==
    <<action_features, observation_features>>

\* TargetPolicy._update: one step of the history model from self.hidden
TargetPolicy_update(self, action_features, observation_features) ==
    LET out == history_model(self.models,
                             << TargetPolicy_update_input(action_features,
                                                          observation_features) >>,
                             self.hidden)
    IN [self EXCEPT !.history_features = Some(out.features[1]),
                    !.hidden = out.hidden]

TargetPolicy_reset(self, observation) ==
    TargetPolicy_update(self, action_model_zeros, observation_model(observation))

TargetPolicy_step(self, action, observation) ==
    TargetPolicy_update(self, action_model(action), observation_model(observation))

\* the input_features of the _update call that reset(observation) makes
TargetPolicy_reset_input(observation) ==
    TargetPolicy_update_input(action_model_zeros, observation_model(observation))

\* the input_features of the _update call that step(action, observation) makes
TargetPolicy_step_input(action, observation) ==
    TargetPolicy_update_input(action_model(action), observation_model(observation))

\* a plausible slip: the greedy action read off the history-state head
TargetPolicy_po_sample_action_qhs(self) ==
    ArgMax(qhs_model(self.models, self.history_features[1],
                     state_model([obs |-> 0, latent |-> 0])))

TargetPolicy_po_sample_action(self) ==
    ArgMax(qh_model(self.models, self.history_features[1]))

\* BehaviorPolicy.__init__: "self.epsilon: float" is an annotation only, so
\* the object has no epsilon attribute (None) until a caller assigns one
BehaviorPolicy_init(m) ==
    [target_policy |-> TargetPolicy_init(m), epsilon |-> None]

\* the values a caller assigns to policy.epsilon
Epsilons == { RInt(0), Rat(1, 2), RInt(1) }

\* the values random.random() returns, in [0, 1)
RandomDraws == { RInt(0), Rat(1, 2) }

\* policy.epsilon = epsilon, in the caller
BehaviorPolicy_set_epsilon(self, epsilon) ==
    [self EXCEPT !.epsilon = Some(epsilon)]

\* the outcomes of a call: a returned value or a raised exception
Returned(v) == [raised |-> None, value |-> Some(v)]
Raised(e) == [raised |-> Some(e), value |-> None]

BehaviorPolicy_reset(self, observation) ==
    [self EXCEPT !.target_policy = TargetPolicy_reset(@, observation)]

BehaviorPolicy_step(self, action, observation) ==
    [self EXCEPT !.target_policy = TargetPolicy_step(@, action, observation)]

\* the condition random.random() < self.epsilon is evaluated first: reading
\* an epsilon that was never assigned raises AttributeError; drawn is the
\* outcome of random.random() and sampled that of self.action_space.sample()
BehaviorPolicy_po_sample_action(self, drawn, sampled) ==
    IF self.epsilon = None THEN Raised("AttributeError")
    ELSE IF RLess(drawn, self.epsilon[1]) THEN Returned(sampled)
    ELSE Returned(TargetPolicy_po_sample_action(self.target_policy))

----------------------------------------------------------------------------
(* POE_ADQN.episodic_loss *)

\* a plausible slip: the action features not shifted by one timestep
compute_q_values_inputs_unshifted(actions, observations) ==
    LET T == Len(actions)
        unrolled == [t \in 1..T |-> action_model(actions[t])]
        action_features == [unrolled EXCEPT ![1] = action_model_zeros]
        observation_features ==
            [t \in 1..T |-> observation_model(observations[t])]
    IN [t \in 1..T |-> <<action_features[t], observation_features[t]>>]

\* compute_q_values: the inputs of the history model
compute_q_values_inputs(actions, observations) ==
    LET T == Len(actions)
        rolled == Roll([t \in 1..T |-> action_model(actions[t])], 1)
        action_features == [rolled EXCEPT ![1] = action_model_zeros]
        observation_features ==
            [t \in 1..T |-> observation_model(observations[t])]
    IN [t \in 1..T |-> <<action_features[t], observation_features[t]>>]

compute_q_values(m, actions, observations, states) ==
    LET T == Len(actions)
        inputs == compute_q_values_inputs(actions, observations)
        history_features == history_model(m, inputs, None).features
        state_features == [t \in 1..T |-> state_model(states[t])]
    IN [qh  |-> [t \in 1..T |-> qh_model(m, history_features[t])],
        qhs |-> [t \in 1..T |->
                    qhs_model(m, history_features[t], state_features[t])]]

\* target_qhs_values.gather(1, target_qh_values.argmax(-1).unsqueeze(-1))
\*     .squeeze(-1): the target estimate of every timestep
greedy_target_values(target_qh_values, target_qhs_values) ==
    Gather(target_qhs_values,
           [t \in 1..Len(target_qh_values) |-> ArgMax(target_qh_values[t])])

\* the index of the episode each entry of the rolled vector is read from
bootstrap_source(ep) == Roll([t \in 1..Len(ep.dones) |-> t], -1)

\* a plausible slip: the terminal mask left out
qhs_loss_bootstrap_nomask(ep, target_qh_values, target_qhs_values) ==
    Roll(greedy_target_values(target_qh_values, target_qhs_values), -1)

\* qhs_values_bootstrap of qhs_loss
qhs_loss_bootstrap(ep, target_qh_values, target_qhs_values) ==
    Where(0, ep.dones,
          Roll(greedy_target_values(target_qh_values, target_qhs_values), -1))

\* qhs_values_bootstrap of qh_loss
qh_loss_bootstrap(ep, target_qh_values, target_qhs_values) ==
    Where(0, ep.dones,
          Roll(greedy_target_values(target_qh_values, target_qhs_values), -1))

\* episode.rewards + discount * qhs_values_bootstrap
td_target(rewards, d, bootstrap) ==
    [t \in 1..Len(rewards) |->
        RAdd(RInt(rewards[t]), RMul(d, RInt(bootstrap[t])))]

qhs_loss_target(ep, target_qh_values, target_qhs_values, d) ==
    td_target(ep.rewards, d,
              qhs_loss_bootstrap(ep, target_qh_values, target_qhs_values))

qh_loss_target(ep, target_qh_values, target_qhs_values, d) ==
    td_target(ep.rewards, d,
              qh_loss_bootstrap(ep, target_qh_values, target_qhs_values))

AsRat(v) == [t \in 1..Len(v) |-> RInt(v[t])]

qhs_loss(ep, qh_values, qhs_values, target_qh_values, target_qhs_values, d) ==
    mse_loss(AsRat(Gather(qhs_values, ep.actions)),
             qhs_loss_target(ep, target_qh_values, target_qhs_values, d))

qh_loss(ep, qh_values, qhs_values, target_qh_values, target_qhs_values, d) ==
    mse_loss(AsRat(Gather(qh_values, ep.actions)),
             qh_loss_target(ep, target_qh_values, target_qhs_values, d))

\* the body of the loop over the episodes
episode_loss(self_models, self_target_models, ep, d) ==
    LET q == compute_q_values(self_models, ep.actions, ep.observations, ep.states)
        tq == compute_q_values(self_target_models,
                               ep.actions, ep.observations, ep.states)
    IN RDivInt(RAdd(qhs_loss(ep, q.qh, q.qhs, tq.qh, tq.qhs, d),
                    qh_loss(ep, q.qh, q.qhs, tq.qh, tq.qhs, d)), 2)

RECURSIVE SumInts(_)
SumInts(s) == IF s = <<>> THEN 0 ELSE Head(s) + SumInts(Tail(s))

\* the commented-out variant: the sum divided by the number of timesteps
episodic_loss_return_per_timestep(ls, episode_lens) ==
    RDivInt(RSum(ls), SumInts(episode_lens))

\* sum(losses, start=torch.tensor(0.0)) / len(losses)
episodic_loss_return(ls, episode_lens) == RDivInt(RSum(ls), Len(ls))

----------------------------------------------------------------------------
(* The environment, as far as the policies and the loss see it *)

\* the observation is the observable part of the state
Observe(s) == s.obs
\* the reward of taking action a in state s
Reward(s, a) == IF s.latent = a THEN 1 ELSE 0

\* the state after taking action a in state s
Transition(s, a) ==
    [obs |-> (s.obs + s.latent + a) % 2, latent |-> (s.latent + a + 1) % 2]

\* the states env.reset() starts an episode in
InitialStates == { s \in States : s.obs = s.latent }

\* the states visited from s0 under the actions as
RECURSIVE Trajectory(_, _)
Trajectory(s0, as) ==
    IF Len(as) <= 1 THEN <<s0>>
    ELSE <<s0>> \o Trajectory(Transition(s0, Head(as)), Tail(as))

\* the episodes of T timesteps: only the last timestep can be terminal, and
\* an episode cut by the time limit ends without done
EpisodesOfLen(T) ==
    { LET ss == Trajectory(s0, as)
      IN [actions      |-> as,
          states       |-> ss,
          observations |-> [t \in 1..T |-> Observe(ss[t])],
          rewards      |-> [t \in 1..T |-> Reward(ss[t], as[t])],
          dones        |-> [t \in 1..T |-> (t = T) /\ d]] :
        as \in [1..T -> Actions], s0 \in InitialStates, d \in BOOLEAN }

Episodes == UNION { EpisodesOfLen(T) : T \in 1..MaxLen }

Discounts == { Rat(1, 2), RInt(1) }

\* parameter snapshots of the online and the target networks
Snapshots == { [history_model |-> k, qh_model |-> k, qhs_model |-> k] :
                  k \in Thetas }

----------------------------------------------------------------------------
(* State machine of the acting policies: two runs that receive the same   *)
(* reset/step calls, in environments whose latent states differ freely    *)

PolicyIdle ==
    /\ bpA = None /\ bpB = None /\ latA = None /\ latB = None
    /\ actA = None /\ actB = None /\ bactA = None /\ bactB = None
    /\ calls = <<>> /\ inputs_fed = <<>>

LossIdle ==
    /\ models = None /\ target_models = None /\ discount = None
    /\ episode = None /\ lens = <<>> /\ losses = <<>> /\ loss = None

PolicyInit ==
    /\ \E mA \in ModelParams, mB \in ModelParams :
         /\ mA.history_model = mB.history_model
         /\ mA.qh_model = mB.qh_model
         /\ bpA = BehaviorPolicy_init(mA)
         /\ bpB = BehaviorPolicy_init(mB)
    /\ latA = None /\ latB = None
    /\ actA = None /\ actB = None /\ bactA = None /\ bactB = None
    /\ calls = <<>> /\ inputs_fed = <<>>

\* env.reset() in both runs, then policy.reset(observation)
PolicyReset ==
    \E o \in Observations, lA \in Latents, lB \in Latents :
        /\ bpA' = BehaviorPolicy_reset(bpA, o)
        /\ bpB' = BehaviorPolicy_reset(bpB, o)
        /\ latA' = Some(lA) /\ latB' = Some(lB)
        /\ actA' = None /\ actB' = None /\ bactA' = None /\ bactB' = None
        /\ calls' = <<[action |-> None, observation |-> o]>>
        /\ inputs_fed' = <<TargetPolicy_reset_input(o)>>
    /\ UNCHANGED <<lossVars, runVars, cfgVars>>

\* env.step(action) in both runs, then policy.step(action, observation)
PolicyStep ==
    \E a \in Actions, o \in Observations, lA \in Latents, lB \in Latents :
        /\ bpA.target_policy.history_features # None
        /\ Len(calls) < MaxLen
        /\ bpA' = BehaviorPolicy_step(bpA, a, o)
        /\ bpB' = BehaviorPolicy_step(bpB, a, o)
        /\ latA' = Some(lA) /\ latB' = Some(lB)
        /\ actA' = None /\ actB' = None /\ bactA' = None /\ bactB' = None
        /\ calls' = Append(calls, [action |-> Some(a), observation |-> o])
        /\ inputs_fed' = Append(inputs_fed, TargetPolicy_step_input(a, o))
    /\ UNCHANGED <<lossVars, runVars, cfgVars>>

\* policy.epsilon = epsilon on the behavior policy of both runs
PolicySetEpsilon ==
    \E epsilon \in Epsilons :
        /\ bpA' = BehaviorPolicy_set_epsilon(bpA, epsilon)
        /\ bpB' = BehaviorPolicy_set_epsilon(bpB, epsilon)
        /\ bpA' # bpA
        /\ UNCHANGED <<latA, latB, actA, actB, bactA, bactB, calls, inputs_fed>>
    /\ UNCHANGED <<lossVars, runVars, cfgVars>>

\* po_sample_action of both policies, under the same random draws
PolicySample ==
    \E drawn \in RandomDraws, sampled \in Actions :
        /\ bpA.target_policy.history_features # None
        /\ actA' = Some(TargetPolicy_po_sample_action(bpA.target_policy))
        /\ actB' = Some(TargetPolicy_po_sample_action(bpB.target_policy))
        /\ bactA' = Some(BehaviorPolicy_po_sample_action(bpA, drawn, sampled))
        /\ bactB' = Some(BehaviorPolicy_po_sample_action(bpB, drawn, sampled))
        /\ UNCHANGED <<bpA, bpB, latA, latB, calls, inputs_fed>>
    /\ UNCHANGED <<lossVars, runVars, cfgVars>>

----------------------------------------------------------------------------
(* State machine of one call of episodic_loss *)

LossInit ==
    /\ models \in Snapshots
    /\ target_models \in Snapshots
    /\ discount \in Discounts
    /\ episode = None /\ lens = <<>> /\ losses = <<>> /\ loss = None

\* one iteration of `for episode in episodes`
LossIteration ==
    \E ep \in Episodes :
        /\ loss = None
        /\ Len(losses) < Cardinality(BatchSizes)
        /\ episode' = Some(ep)
        /\ lens' = Append(lens, Len(ep.actions))
        /\ losses' = Append(losses,
                            episode_loss(models, target_models, ep, discount))
        /\ UNCHANGED <<models, target_models, discount, loss>>
    /\ UNCHANGED <<polVars, runVars, cfgVars>>

\* the return statement, after the last episode of the batch
LossReturn ==
    /\ loss = None
    /\ Len(losses) \in BatchSizes
    /\ loss' = Some(episodic_loss_return(losses, lens))
    /\ UNCHANGED <<models, target_models, discount, episode, lens, losses>>
    /\ UNCHANGED <<polVars, runVars, cfgVars>>

----------------------------------------------------------------------------
(* main_a2c.py: configuration *)

\* Config._update: dict.update
Config_update(c, cd) ==
    [k \in (DOMAIN c) \cup (DOMAIN cd) |-> IF k \in DOMAIN cd THEN cd[k] ELSE c[k]]

\* Config._as_dict: a copy of the dict
Config_as_dict(c) == c

\* Config._clear: self._config.clear() leaves the dict with no entries
Config_clear(c) == << >>

\* Config() of a fresh process: the empty dict
Config_init == << >>

\* the command lines the model launches the program with: every combination
\* of the flags under the default target update function and tau, and runs
\* under a run path with --target-update-function polyak
\* --target-update-polyak-tau 0.5
CommandLines ==
    [run_path : {None, Some("run")},
     check_checkpoint_consistency : BOOLEAN,
     save_model : BOOLEAN,
     save_modelseq : BOOLEAN,
     evaluation : BOOLEAN,
     evaluation_period : {2},
     target_update_function : {"full"},
     target_update_polyak_tau : {Rat(1, 1000)},
     target_update_full_period : {2},
     num_data_logs : {1},
     max_simulation_timesteps : {MaxSimulationTimesteps}]
    \cup
    [run_path : {Some("run")},
     check_checkpoint_consistency : BOOLEAN,
     save_model : {FALSE},
     save_modelseq : {FALSE},
     evaluation : {FALSE},
     evaluation_period : {2},
     target_update_function : {"polyak"},
     target_update_polyak_tau : {Rat(1, 2)},
     target_update_full_period : {2},
     num_data_logs : {1},
     max_simulation_timesteps : {MaxSimulationTimesteps}]

\* the tail of parse_args: the three paths follow from run_path
parse_args(cl) ==
    Config_update(cl,
        IF cl.run_path = None
        THEN [checkpoint_path |-> None, model_path |-> None,
              modelseq_path_template |-> None]
        ELSE [checkpoint_path |-> Some("checkpoint.pkl"),
              model_path |-> Some("model.pkl"),
              modelseq_path_template |-> Some("modelseq")])

----------------------------------------------------------------------------
(* main_a2c.py: Runflags, Controlflow, Runstate, Checkpoint *)

Runflags_init == [done |-> FALSE, timeout |-> FALSE, interrupt |-> FALSE]

Controlflow_init ==
    [log_data |-> FALSE, update_target_parameters |-> FALSE,
     evaluate |-> FALSE, save_modelseq |-> FALSE]

stop_run(rf) == rf.done \/ rf.timeout \/ rf.interrupt

XStats_init ==
    [epoch |-> 0, simulation_episodes |-> 0, simulation_timesteps |-> 0,
     training_episodes |-> 0, training_timesteps |-> 0, optimizer_steps |-> 0]

\* Dispenser(n, period)
Dispenser(n, period) == [n |-> n, period |-> period]

\* Dispenser.dispense(n): whether n has reached the next dispense point
Dispenser_due(d, n) == n >= d.n
\* the dispenser after dispense(n)
Dispenser_dispense(d, n) ==
    IF Dispenser_due(d, n) THEN [d EXCEPT !.n = n + d.period] ELSE d

\* an object constructed by this launch from the configuration
Built(l) == [built_in_launch |-> l]

\* algo.state_dict()
algo_state_dict(algo) == [params |-> algo.params, target |-> algo.target]
\* algo.load_state_dict(sd)
algo_load_state_dict(algo, sd) ==
    [algo EXCEPT !.params = sd.params, !.target = sd.target]

\* the updater of make_target_updater('full'): the target parameters become
\* the online parameters
target_updater_full(target, params) == RInt(params)

\* the updater of make_target_updater('polyak', tau): the target parameters
\* move the fraction tau towards the online parameters:
\* (1 - tau) * target + tau * params, over the common denominator
target_updater_polyak(target, params, tau) ==
    Rat((tau.den - tau.num) * target.num + tau.num * params * target.den,
        tau.den * target.den)

\* make_target_updater(config.target_update_function,
\*                     tau=config.target_update_polyak_tau), applied
target_updater(cfg, target, params) ==
    IF cfg.target_update_function = "polyak"
    THEN target_updater_polyak(target, params, cfg.target_update_polyak_tau)
    ELSE target_updater_full(target, params)

\* datalog_period = config.max_simulation_timesteps // config.num_data_logs
datalog_period(cfg) == cfg.max_simulation_timesteps \div cfg.num_data_logs

\* make_target_update_dispenser: the dispenser of the target updates, or
\* None where the function ends on assert False
make_target_update_dispenser(cfg) ==
    IF cfg.target_update_function = "full"
    THEN Some(Dispenser(0, cfg.target_update_full_period))
    ELSE IF cfg.target_update_function = "polyak"
         THEN Some(Dispenser(0, 0))
         ELSE None

\* make_runstate raises AssertionError for any other target update function
make_runstate_raises(cfg) == make_target_update_dispenser(cfg) = None

\* make_runstate up to line 432: everything constructed anew, where
\* make_target_update_dispenser returns
fresh_runstate(cfg, l) ==
    [env |-> Built(l),
     algo |-> [params |-> 0, target |-> RInt(0), built_in_launch |-> l],
     datalogger |-> [pending |-> {}, created_in_launch |-> l],
     timer |-> [started_in_launch |-> l],
     xstats |-> XStats_init,
     averages |-> [target |-> 0, behavior |-> 0],
     dispensers |-> [target_update |-> make_target_update_dispenser(cfg)[1],
                     datalog |-> Dispenser(0, datalog_period(cfg)),
                     checkpoint |-> [created_in_launch |-> l]],
     target_updater |-> Built(l),
     episodes_factories |-> Built(l),
     device |-> Built(l),
     negentropy_schedule |-> Built(l),
     q_estimator |-> Built(l)]

\* a plausible slip: the counters of the checkpoint not taken over
make_runstate_fresh_xstats(ckpt, cfg, l) ==
    LET fresh == fresh_runstate(cfg, l)
    IN IF ckpt = None THEN fresh
       ELSE [fresh EXCEPT
               !.algo = algo_load_state_dict(@, ckpt[1].data.algo_state_dict),
               !.datalogger = ckpt[1].data.datalogger,
               !.timer = ckpt[1].data.timer,
               !.averages = ckpt[1].data.averages,
               !.dispensers = ckpt[1].data.dispensers]

make_runstate(ckpt, cfg, l) ==
    LET fresh == fresh_runstate(cfg, l)
    IN IF ckpt = None THEN fresh
       ELSE [fresh EXCEPT
               !.algo = algo_load_state_dict(@, ckpt[1].data.algo_state_dict),
               !.datalogger = ckpt[1].data.datalogger,
               !.timer = ckpt[1].data.timer,
               !.xstats = ckpt[1].data.xstats,
               !.averages = ckpt[1].data.averages,
               !.dispensers = ckpt[1].data.dispensers]

\* make_runstate binds datalogger, timer, xstats, averages and dispensers of
\* the runstate to the objects of the checkpoint, without a copy: the
\* checkpoint main holds, once the runstate has become rs by updates in
\* place. The algorithm state is loaded into the new algo, not shared.
aliased_checkpoint(ckpt, rs) ==
    IF ckpt = None THEN None
    ELSE Some([ckpt[1] EXCEPT !.data.datalogger = rs.datalogger,
                              !.data.timer = rs.timer,
                              !.data.xstats = rs.xstats,
                              !.data.averages = rs.averages,
                              !.data.dispensers = rs.dispensers])

make_checkpoint(rs, cfg) ==
    [metadata |-> [config |-> Config_as_dict(cfg),
                   wandb_run_id |-> cfg.wandb_run_id],
     data |-> [algo_state_dict |-> algo_state_dict(rs.algo),
               datalogger |-> rs.datalogger,
               timer |-> rs.timer,
               xstats |-> rs.xstats,
               averages |-> rs.averages,
               dispensers |-> rs.dispensers]]

\* save_data(path, data) cannot open a path that is None
save_data_raises(path) == path = None

\* a plausible slip: the test of the path inverted
save_checkpoint_inverted(rs, cfg, d) ==
    IF cfg.checkpoint_path # None THEN d
    ELSE [d EXCEPT !.checkpoint = Some(make_checkpoint(rs, cfg))]

\* save_checkpoint: the disk after the call
save_checkpoint(rs, cfg, d) ==
    IF cfg.checkpoint_path = None THEN d
    ELSE [d EXCEPT !.checkpoint = Some(make_checkpoint(rs, cfg))]

\* a plausible slip: done computed with a strict comparison
runflags_done_strict(rs, cfg) ==
    rs.xstats.simulation_timesteps > cfg.max_simulation_timesteps

\* a plausible slip: done computed with an equality
runflags_done_equal(rs, cfg) ==
    rs.xstats.simulation_timesteps = cfg.max_simulation_timesteps

runflags_done(rs, cfg) ==
    rs.xstats.simulation_timesteps >= cfg.max_simulation_timesteps

\* update_runflags: done and timeout are recomputed, interrupt is left alone
update_runflags(rs, rf, cfg, past) ==
    [rf EXCEPT !.done = runflags_done(rs, cfg), !.timeout = past]

\* a plausible slip: the model saved whenever the run stops
save_model_due_any_stop(rf, cfg) == cfg.save_model

\* run: if runflags.done and config.save_model
save_model_due(rf, cfg) == rf.done /\ cfg.save_model

\* a plausible slip: the exit value taken from stop_run
main_retvalue_stop_run(rf) == IF rf.done /\ ~rf.timeout /\ ~rf.interrupt THEN 0 ELSE 1

\* int(not runflags.done)
main_retvalue(rf) == IF ~rf.done THEN 1 ELSE 0

\* a plausible slip: the consistency flag not consulted
checkpoint_inconsistent_always(ckpt, cfg) ==
    /\ ckpt # None
    /\ ckpt[1].metadata.config # Config_as_dict(cfg)

\* the condition of the RuntimeError in main
checkpoint_inconsistent(ckpt, cfg) ==
    /\ ckpt # None
    /\ cfg.check_checkpoint_consistency
    /\ ckpt[1].metadata.config # Config_as_dict(cfg)

----------------------------------------------------------------------------
(* XStats updates and the steps of an epoch *)

update_xstats_epoch(x) == [x EXCEPT !.epoch = @ + 1]
update_xstats_simulation(x, eps) ==
    [x EXCEPT !.simulation_episodes = @ + Len(eps),
              !.simulation_timesteps = @ + SumInts(eps)]
update_xstats_training(x, eps) ==
    [x EXCEPT !.training_episodes = @ + Len(eps),
              !.training_timesteps = @ + SumInts(eps)]
update_xstats_optimizer(x) == [x EXCEPT !.optimizer_steps = @ + 1]

\* datalogger.log(record, commit=False)
datalogger_log(dl, kind) == [dl EXCEPT !.pending = @ \cup {kind}]
\* datalogger.commit()
datalogger_commit(dl) == [dl EXCEPT !.pending = {}]

\* a plausible slip: config.evaluation not consulted
update_controlflow_evaluate_unconditional(rs, cfg) ==
    LET log_data ==
            Dispenser_due(rs.dispensers.datalog, rs.xstats.simulation_timesteps)
        update_target ==
            Dispenser_due(rs.dispensers.target_update,
                          rs.xstats.simulation_timesteps)
        evaluate == rs.xstats.epoch % cfg.evaluation_period = 0
    IN [log_data |-> log_data,
        update_target_parameters |-> update_target,
        evaluate |-> evaluate,
        save_modelseq |-> log_data /\ cfg.save_modelseq]

\* update_controlflow: the flags of the epoch
update_controlflow(rs, cfg) ==
    LET log_data ==
            Dispenser_due(rs.dispensers.datalog, rs.xstats.simulation_timesteps)
        update_target ==
            Dispenser_due(rs.dispensers.target_update,
                          rs.xstats.simulation_timesteps)
        evaluate == rs.xstats.epoch % cfg.evaluation_period = 0
    IN [log_data |-> log_data,
        update_target_parameters |-> update_target,
        evaluate |-> evaluate /\ cfg.evaluation,
        save_modelseq |-> log_data /\ cfg.save_modelseq]

\* update_controlflow: the dispensers after the two dispense calls
update_controlflow_dispensers(rs) ==
    [rs.dispensers EXCEPT
        !.datalog = Dispenser_dispense(@, rs.xstats.simulation_timesteps),
        !.target_update = Dispenser_dispense(@, rs.xstats.simulation_timesteps)]

RS == runstate[1]
RF == runflags[1]
CF == controlflow[1]

\* a plausible slip: the target update placed after the training step
run_epoch_next_target_after_training(stmt) ==
    CASE stmt = "epoch_update_controlflow" -> "epoch_evaluate"
      [] stmt = "epoch_evaluate"           -> "epoch_simulate"
      [] stmt = "epoch_simulate"           -> "epoch_train"
      [] stmt = "epoch_train"              -> "epoch_target_update"
      [] stmt = "epoch_target_update"      -> "epoch_save_modelseq"
      [] stmt = "epoch_save_modelseq"      -> "epoch_update_xstats"
      [] stmt = "epoch_update_xstats"      -> "epoch_commit"
      [] stmt = "epoch_commit"             -> "run_checkpoint_dispense"

\* run_epoch: the statement that follows each statement of the body; after
\* the last one run_epoch returns to the loop of run
run_epoch_next(stmt) ==
    CASE stmt = "epoch_update_controlflow" -> "epoch_evaluate"
      [] stmt = "epoch_evaluate"           -> "epoch_simulate"
      [] stmt = "epoch_simulate"           -> "epoch_target_update"
      [] stmt = "epoch_target_update"      -> "epoch_train"
      [] stmt = "epoch_train"              -> "epoch_save_modelseq"
      [] stmt = "epoch_save_modelseq"      -> "epoch_update_xstats"
      [] stmt = "epoch_update_xstats"      -> "epoch_commit"
      [] stmt = "epoch_commit"             -> "run_checkpoint_dispense"

EpochPcs == {"epoch_update_controlflow", "epoch_evaluate", "epoch_simulate",
             "epoch_target_update", "epoch_train", "epoch_save_modelseq",
             "epoch_update_xstats", "epoch_commit"}
LoopPcs == {"run_update_runflags", "run_stop_check", "run_checkpoint_dispense"}
             \cup EpochPcs
AfterLoopPcs == {"run_final_save", "run_save_model", "main_return"}
EndPcs == {"returned", "raised"}

----------------------------------------------------------------------------
(* State machine of the training run: main, run and run_epoch, the signal   *)
(* handler, and relaunches of the program on the same disk                  *)

RunIdle ==
    /\ pc = "idle" /\ launch = 0 /\ args = None /\ config = Config_init
    /\ disk = None /\ checkpoint = None /\ runstate = None /\ runflags = None
    /\ controlflow = None /\ sim_episodes = None
    /\ retvalue = None /\ saved_at = None
    /\ epoch_steps = <<>> /\ wandb_kwargs = None /\ exception = None
    /\ loaded = None

Disk_init == [checkpoint |-> None, model |-> None, modelseq |-> {}]

\* main: wandb_kwargs before the checkpoint is loaded
wandb_kwargs_init == [resume |-> None, id |-> None]

RunInit ==
    /\ pc = "main_load"
    /\ launch = 1
    /\ \E cl \in CommandLines : args = parse_args(cl)
    /\ config = Config_init
    /\ disk = Disk_init
    /\ checkpoint = None /\ runstate = None /\ runflags = None
    /\ controlflow = None /\ sim_episodes = None
    /\ retvalue = None /\ saved_at = None
    /\ epoch_steps = <<>> /\ exception = None /\ loaded = None
    /\ wandb_kwargs = Some(wandb_kwargs_init)

\* load_data(path): the outcomes of reading the file at path off the disk d.
\* A path that is None gives TypeError, a file that does not exist
\* FileNotFoundError; a file that exists is returned, unless reading it fails
LoadOutcomes(path, d) ==
    IF path = None THEN {[raised |-> Some("TypeError"), value |-> None]}
    ELSE IF d.checkpoint = None
         THEN {[raised |-> Some("FileNotFoundError"), value |-> None]}
         ELSE {[raised |-> None, value |-> d.checkpoint],
               [raised |-> Some("OSError"), value |-> None]}

\* a plausible slip: every error of the load taken for a missing checkpoint
main_load_caught_any(e) == TRUE

\* except (TypeError, FileNotFoundError)
main_load_caught(e) == e \in {"TypeError", "FileNotFoundError"}

\* a plausible slip: the id of the checkpoint not passed on
main_resume_kwargs_no_id(kwargs, ckpt) ==
    [kwargs EXCEPT !.resume = Some("must")]

\* the else branch of the try: wandb_kwargs.update(resume, id)
main_resume_kwargs(kwargs, ckpt) ==
    [kwargs EXCEPT !.resume = Some("must"),
                   !.id = Some(ckpt.metadata.wandb_run_id)]

\* main: the try statement around load_data(args.checkpoint_path)
Main_load_checkpoint ==
    /\ pc = "main_load"
    /\ \E out \in LoadOutcomes(args.checkpoint_path, disk) :
         IF out.raised # None
         THEN IF main_load_caught(out.raised[1])
              THEN /\ checkpoint' = None
                   /\ pc' = "main_wandb_init"
                   /\ UNCHANGED <<wandb_kwargs, exception, loaded>>
              ELSE /\ pc' = "raised"
                   /\ exception' = out.raised
                   /\ UNCHANGED <<checkpoint, wandb_kwargs, loaded>>
         ELSE /\ checkpoint' = out.value
              /\ loaded' = out.value
              /\ wandb_kwargs' =
                     Some(main_resume_kwargs(wandb_kwargs[1], out.value[1]))
              /\ pc' = "main_wandb_init"
              /\ UNCHANGED exception
    /\ UNCHANGED <<epoch_steps>>
    /\ UNCHANGED <<launch, args, config, disk, runstate, runflags, controlflow,
                   sim_episodes, retvalue, saved_at>>
    /\ UNCHANGED <<polVars, lossVars, cfgVars>>

\* wandb.init(**wandb_kwargs): the id of the run, the one asked for with
\* resume 'must', else a new one
wandb_init(kwargs, l) ==
    IF kwargs.resume = Some("must") /\ kwargs.id # None THEN kwargs.id[1] ELSE l

\* main: wandb.init and the two config._update calls
Main_wandb_init ==
    /\ pc = "main_wandb_init"
    /\ config' = Config_update(Config_update(config, args),
                               [wandb_run_id |-> wandb_init(wandb_kwargs[1], launch)])
    /\ pc' = "main_check"
    /\ UNCHANGED <<epoch_steps, wandb_kwargs, loaded, exception>>
    /\ UNCHANGED <<launch, args, disk, checkpoint, runstate, runflags,
                   controlflow, sim_episodes, retvalue, saved_at>>
    /\ UNCHANGED <<polVars, lossVars, cfgVars>>

\* main: the consistency check of the loaded checkpoint
Main_check_consistency ==
    /\ pc = "main_check"
    /\ IF checkpoint_inconsistent(checkpoint, config)
       THEN pc' = "raised" /\ exception' = Some("RuntimeError")
       ELSE pc' = "main_make_runstate" /\ exception' = exception
    /\ UNCHANGED <<epoch_steps, wandb_kwargs, loaded>>
    /\ UNCHANGED <<launch, args, config, disk, checkpoint, runstate, runflags,
                   controlflow, sim_episodes, retvalue, saved_at>>
    /\ UNCHANGED <<polVars, lossVars, cfgVars>>

\* main: make_runstate(checkpoint), which raises where its assertion fails
Main_make_runstate ==
    /\ pc = "main_make_runstate"
    /\ IF make_runstate_raises(config)
       THEN /\ pc' = "raised"
            /\ exception' = Some("AssertionError")
            /\ UNCHANGED runstate
       ELSE /\ runstate' = Some(make_runstate(checkpoint, config, launch))
            /\ pc' = "run_setup"
            /\ UNCHANGED exception
    /\ UNCHANGED <<epoch_steps, wandb_kwargs, loaded>>
    /\ UNCHANGED <<launch, args, config, disk, checkpoint, runflags,
                   controlflow, sim_episodes, retvalue, saved_at>>
    /\ UNCHANGED <<polVars, lossVars, cfgVars>>

\* run, up to the loop: the flags are created and the handler installed
Run_setup ==
    /\ pc = "run_setup"
    /\ controlflow' = Some(Controlflow_init)
    /\ runflags' = Some(Runflags_init)
    /\ pc' = "run_update_runflags"
    /\ UNCHANGED <<epoch_steps, wandb_kwargs, loaded, exception>>
    /\ UNCHANGED <<launch, args, config, disk, checkpoint, runstate,
                   sim_episodes, retvalue, saved_at>>
    /\ UNCHANGED <<polVars, lossVars, cfgVars>>

\* past is the outcome of timestamp_is_past(config.timeout_timestamp)
Run_update_runflags ==
    /\ pc = "run_update_runflags"
    /\ \E past \in BOOLEAN :
         runflags' = Some(update_runflags(RS, RF, config, past))
    /\ pc' = "run_stop_check"
    /\ UNCHANGED <<epoch_steps, wandb_kwargs, loaded, exception>>
    /\ UNCHANGED <<launch, args, config, disk, checkpoint, runstate,
                   controlflow, sim_episodes, retvalue, saved_at>>
    /\ UNCHANGED <<polVars, lossVars, cfgVars>>

\* if runflags.stop_run(): break
Run_stop_check ==
    /\ pc = "run_stop_check"
    /\ pc' = IF stop_run(RF) THEN "run_final_save" ELSE "epoch_update_controlflow"
    /\ UNCHANGED <<epoch_steps, wandb_kwargs, loaded, exception>>
    /\ UNCHANGED <<launch, args, config, disk, checkpoint, runstate, runflags,
                   controlflow, sim_episodes, retvalue, saved_at>>
    /\ UNCHANGED <<polVars, lossVars, cfgVars>>

\* run_epoch: update_controlflow, then log_xstats if log_data
Epoch_update_controlflow ==
    /\ pc = "epoch_update_controlflow"
    /\ LET cf == update_controlflow(RS, config)
           rs1 == [RS EXCEPT !.dispensers = update_controlflow_dispensers(RS)]
       IN /\ controlflow' = Some(cf)
          /\ runstate' = Some(IF cf.log_data
                              THEN [rs1 EXCEPT !.datalogger =
                                                 datalogger_log(@, "xstats")]
                              ELSE rs1)
          /\ epoch_steps' = <<"update_controlflow">> \o
                 (IF cf.log_data THEN <<"log_xstats">> ELSE <<>>)
    /\ checkpoint' = aliased_checkpoint(checkpoint, runstate'[1])
    /\ pc' = run_epoch_next("epoch_update_controlflow")
    /\ UNCHANGED <<wandb_kwargs, loaded, exception>>
    /\ UNCHANGED <<launch, args, config, disk, runflags,
                   sim_episodes, retvalue, saved_at>>
    /\ UNCHANGED <<polVars, lossVars, cfgVars>>

\* run_epoch: run_evaluation if evaluate
Epoch_evaluate ==
    /\ pc = "epoch_evaluate"
    /\ runstate' = Some(IF CF.evaluate
                        THEN [RS EXCEPT
                                !.averages.target = @ + 1,
                                !.datalogger = datalogger_log(@, "evaluation")]
                        ELSE RS)
    /\ epoch_steps' = epoch_steps \o
           (IF CF.evaluate THEN <<"run_evaluation", "log_evaluation">> ELSE <<>>)
    /\ checkpoint' = aliased_checkpoint(checkpoint, runstate'[1])
    /\ pc' = run_epoch_next("epoch_evaluate")
    /\ UNCHANGED <<wandb_kwargs, loaded, exception>>
    /\ UNCHANGED <<launch, args, config, disk, runflags,
                   controlflow, sim_episodes, retvalue, saved_at>>
    /\ UNCHANGED <<polVars, lossVars, cfgVars>>

\* a ceiling on xstats.simulation_timesteps that no run of the program
\* reaches: the loop stops before max_simulation_timesteps plus one episode
SimulationCap == MaxSimulationTimesteps + MaxEpisodeTimesteps

\* run_epoch: run_simulation; one episode of at least one timestep
Epoch_simulate ==
    /\ pc = "epoch_simulate"
    /\ \E n \in 1..MaxEpisodeTimesteps :
         LET eps == <<n>>
             rs1 == IF CF.log_data
                    THEN [RS EXCEPT
                            !.averages.behavior = @ + 1,
                            !.datalogger = datalogger_log(@, "simulation")]
                    ELSE RS
         IN /\ RS.xstats.simulation_timesteps + n <= SimulationCap
            /\ sim_episodes' = Some(eps)
            /\ runstate' = Some([rs1 EXCEPT
                                   !.xstats = update_xstats_simulation(@, eps)])
    /\ epoch_steps' = epoch_steps \o <<"run_simulation">> \o
           (IF CF.log_data THEN <<"log_simulation">> ELSE <<>>)
    /\ checkpoint' = aliased_checkpoint(checkpoint, runstate'[1])
    /\ pc' = run_epoch_next("epoch_simulate")
    /\ UNCHANGED <<wandb_kwargs, loaded, exception>>
    /\ UNCHANGED <<launch, args, config, disk, runflags,
                   controlflow, retvalue, saved_at>>
    /\ UNCHANGED <<polVars, lossVars, cfgVars>>

\* run_epoch: the target update if due
Epoch_target_update ==
    /\ pc = "epoch_target_update"
    /\ runstate' = Some(IF CF.update_target_parameters
                        THEN [RS EXCEPT !.algo.target =
                                target_updater(config, @, RS.algo.params)]
                        ELSE RS)
    /\ epoch_steps' = epoch_steps \o
           (IF CF.update_target_parameters THEN <<"target_updater">> ELSE <<>>)
    /\ pc' = run_epoch_next("epoch_target_update")
    /\ UNCHANGED <<wandb_kwargs, loaded, exception>>
    /\ UNCHANGED <<launch, args, config, disk, checkpoint, runflags,
                   controlflow, sim_episodes, retvalue, saved_at>>
    /\ UNCHANGED <<polVars, lossVars, cfgVars>>

\* run_epoch: run_training on the episodes of this epoch
Epoch_train ==
    /\ pc = "epoch_train"
    /\ LET rs1 == [RS EXCEPT !.algo.params = @ + 1]
           rs2 == IF CF.log_data
                  THEN [rs1 EXCEPT !.datalogger = datalogger_log(@, "training")]
                  ELSE rs1
       IN runstate' = Some([rs2 EXCEPT
              !.xstats = update_xstats_optimizer(
                             update_xstats_training(@, sim_episodes[1]))])
    /\ epoch_steps' = epoch_steps \o <<"run_training">> \o
           (IF CF.log_data THEN <<"log_training">> ELSE <<>>)
    /\ checkpoint' = aliased_checkpoint(checkpoint, runstate'[1])
    /\ pc' = run_epoch_next("epoch_train")
    /\ UNCHANGED <<wandb_kwargs, loaded, exception>>
    /\ UNCHANGED <<launch, args, config, disk, runflags,
                   controlflow, sim_episodes, retvalue, saved_at>>
    /\ UNCHANGED <<polVars, lossVars, cfgVars>>

\* run_epoch: save_modelseq if due; formatting a template that is None raises
Epoch_save_modelseq ==
    /\ pc = "epoch_save_modelseq"
    /\ IF CF.save_modelseq
       THEN IF config.modelseq_path_template = None
            THEN /\ pc' = "raised"
                 /\ exception' = Some("AttributeError")
                 /\ disk' = disk
            ELSE /\ pc' = run_epoch_next("epoch_save_modelseq")
                 /\ exception' = exception
                 /\ disk' = [disk EXCEPT !.modelseq =
                                @ \cup {RS.xstats.simulation_timesteps}]
       ELSE /\ pc' = run_epoch_next("epoch_save_modelseq")
            /\ exception' = exception
            /\ disk' = disk
    /\ epoch_steps' = epoch_steps \o
           (IF CF.save_modelseq THEN <<"save_modelseq">> ELSE <<>>)
    /\ UNCHANGED <<wandb_kwargs, loaded>>
    /\ UNCHANGED <<launch, args, config, checkpoint, runstate, runflags,
                   controlflow, sim_episodes, retvalue, saved_at>>
    /\ UNCHANGED <<polVars, lossVars, cfgVars>>

Epoch_update_xstats ==
    /\ pc = "epoch_update_xstats"
    /\ runstate' = Some([RS EXCEPT !.xstats = update_xstats_epoch(@)])
    /\ epoch_steps' = Append(epoch_steps, "update_xstats_epoch")
    /\ checkpoint' = aliased_checkpoint(checkpoint, runstate'[1])
    /\ pc' = run_epoch_next("epoch_update_xstats")
    /\ UNCHANGED <<wandb_kwargs, loaded, exception>>
    /\ UNCHANGED <<launch, args, config, disk, runflags,
                   controlflow, sim_episodes, retvalue, saved_at>>
    /\ UNCHANGED <<polVars, lossVars, cfgVars>>

\* run_epoch: datalogger.commit() if log_data; run_epoch returns
Epoch_commit ==
    /\ pc = "epoch_commit"
    /\ runstate' = Some(IF CF.log_data
                        THEN [RS EXCEPT !.datalogger = datalogger_commit(@)]
                        ELSE RS)
    /\ sim_episodes' = None
    /\ epoch_steps' = epoch_steps \o
           (IF CF.log_data THEN <<"commit">> ELSE <<>>)
    /\ checkpoint' = aliased_checkpoint(checkpoint, runstate'[1])
    /\ pc' = run_epoch_next("epoch_commit")
    /\ UNCHANGED <<wandb_kwargs, loaded, exception>>
    /\ UNCHANGED <<launch, args, config, disk, runflags,
                   controlflow, retvalue, saved_at>>
    /\ UNCHANGED <<polVars, lossVars, cfgVars>>

\* run: the periodic checkpoint; whether the period has elapsed is up to the clock
Run_checkpoint_dispense ==
    /\ pc = "run_checkpoint_dispense"
    /\ \E due \in BOOLEAN :
         IF due
         THEN /\ disk' = save_checkpoint(RS, config, disk)
              /\ saved_at' = Some(RS.xstats.epoch)
         ELSE UNCHANGED <<disk, saved_at>>
    /\ pc' = "run_update_runflags"
    /\ UNCHANGED <<epoch_steps, wandb_kwargs, loaded, exception>>
    /\ UNCHANGED <<launch, args, config, checkpoint, runstate, runflags,
                   controlflow, sim_episodes, retvalue>>
    /\ UNCHANGED <<polVars, lossVars, cfgVars>>

\* run: the save_checkpoint after the loop
Run_final_save ==
    /\ pc = "run_final_save"
    /\ disk' = save_checkpoint(RS, config, disk)
    /\ saved_at' = Some(RS.xstats.epoch)
    /\ pc' = "run_save_model"
    /\ UNCHANGED <<epoch_steps, wandb_kwargs, loaded, exception>>
    /\ UNCHANGED <<launch, args, config, checkpoint, runstate, runflags,
                   controlflow, sim_episodes, retvalue>>
    /\ UNCHANGED <<polVars, lossVars, cfgVars>>

\* run: save_model if done and config.save_model; run returns
Run_save_model ==
    /\ pc = "run_save_model"
    /\ IF save_model_due(RF, config)
       THEN IF save_data_raises(config.model_path)
            THEN /\ pc' = "raised"
                 /\ exception' = Some("TypeError")
                 /\ disk' = disk
            ELSE /\ pc' = "main_return"
                 /\ exception' = exception
                 /\ disk' = [disk EXCEPT !.model =
                                Some([config |-> Config_as_dict(config),
                                      params |-> RS.algo.params])]
       ELSE /\ pc' = "main_return"
            /\ exception' = exception
            /\ disk' = disk
    /\ UNCHANGED <<epoch_steps, wandb_kwargs, loaded>>
    /\ UNCHANGED <<launch, args, config, checkpoint, runstate, runflags,
                   controlflow, sim_episodes, retvalue, saved_at>>
    /\ UNCHANGED <<polVars, lossVars, cfgVars>>

\* main: the return value
Main_return ==
    /\ pc = "main_return"
    /\ retvalue' = Some(main_retvalue(RF))
    /\ pc' = "returned"
    /\ UNCHANGED <<epoch_steps, wandb_kwargs, loaded, exception>>
    /\ UNCHANGED <<launch, args, config, disk, checkpoint, runstate, runflags,
                   controlflow, sim_episodes, saved_at>>
    /\ UNCHANGED <<polVars, lossVars, cfgVars>>

\* handle_interrupt: SIGINT or SIGTERM while the handler is installed
Signal ==
    /\ pc \in LoopPcs \cup AfterLoopPcs
    /\ ~RF.interrupt
    /\ runflags' = Some([RF EXCEPT !.interrupt = TRUE])
    /\ UNCHANGED <<epoch_steps, wandb_kwargs, loaded, exception>>
    /\ UNCHANGED <<pc, launch, args, config, disk, checkpoint, runstate,
                   controlflow, sim_episodes, retvalue, saved_at>>
    /\ UNCHANGED <<polVars, lossVars, cfgVars>>

\* the command lines of a relaunch: the one of the last launch, with or
\* without --check-checkpoint-consistency
Relaunches(a) ==
    { parse_args(cl) : cl \in { c \in CommandLines :
                                  /\ c.run_path = a.run_path
                                  /\ c.target_update_function =
                                       a.target_update_function
                                  /\ c.save_model = a.save_model
                                  /\ c.evaluation = a.evaluation
                                  /\ c.save_modelseq = a.save_modelseq } }

\* the program has ended and is launched again; only the disk survives
Relaunch ==
    /\ pc \in EndPcs
    /\ launch < MaxLaunches
    /\ launch' = launch + 1
    /\ args' \in Relaunches(args)
    /\ config' = Config_init
    /\ checkpoint' = None /\ runstate' = None /\ runflags' = None
    /\ controlflow' = None /\ sim_episodes' = None
    /\ retvalue' = None /\ saved_at' = None
    /\ epoch_steps' = <<>> /\ exception' = None /\ loaded' = None
    /\ wandb_kwargs' = Some(wandb_kwargs_init)
    /\ pc' = "main_load"
    /\ UNCHANGED disk
    /\ UNCHANGED <<polVars, lossVars, cfgVars>>

ProgramStep ==
    \/ Main_load_checkpoint \/ Main_wandb_init \/ Main_check_consistency
    \/ Main_make_runstate \/ Run_setup \/ Run_update_runflags \/ Run_stop_check
    \/ Epoch_update_controlflow \/ Epoch_evaluate \/ Epoch_simulate
    \/ Epoch_target_update \/ Epoch_train \/ Epoch_save_modelseq
    \/ Epoch_update_xstats \/ Epoch_commit \/ Run_checkpoint_dispense
    \/ Run_final_save \/ Run_save_model \/ Main_return

----------------------------------------------------------------------------
(* State machine of the Config singleton: objects and dicts are numbered in  *)
(* the order they are created, so that two references can be told apart     *)

ConfigKeys == {"seed", "wandb_run_id"}
ConfigValues == {0, 1}

\* the dicts given to _update: some keys with values
ConfigDicts ==
    UNION { [D -> ConfigValues] : D \in (SUBSET ConfigKeys) \ {{}} }

\* the module as imported: _config is None and no Config exists
ConfigInit ==
    /\ config_global = None
    /\ config_objects = <<>>
    /\ dicts = <<>>
    /\ refs = <<>>
    /\ snapshots = <<>>
    /\ last_op = [op |-> "import"]

\* a plausible slip: the global not consulted, a new Config on every call
get_config_always_new(g, objs, ds) ==
    [global |-> Some(Len(objs) + 1),
     objects |-> Append(objs, Len(ds) + 1),
     dicts |-> Append(ds, Config_init),
     result |-> Len(objs) + 1]

\* get_config(): the Config is created with an empty dict by the first call
get_config(g, objs, ds) ==
    IF g = None
    THEN [global |-> Some(Len(objs) + 1),
          objects |-> Append(objs, Len(ds) + 1),
          dicts |-> Append(ds, Config_init),
          result |-> Len(objs) + 1]
    ELSE [global |-> g, objects |-> objs, dicts |-> ds, result |-> g[1]]

\* a plausible slip: the dict itself returned instead of a copy
Config_as_dict_alias(ds, d) == [dicts |-> ds, result |-> d]

\* Config._as_dict on the Config whose dict is d: self._config.copy() is a
\* new dict with the same entries
Config_as_dict_copy(ds, d) ==
    [dicts |-> Append(ds, Config_as_dict(ds[d])), result |-> Len(ds) + 1]

\* config = get_config() somewhere in the program
GetConfig ==
    /\ Len(refs) < MaxRefs
    /\ LET r == get_config(config_global, config_objects, dicts)
       IN /\ config_global' = r.global
          /\ config_objects' = r.objects
          /\ dicts' = r.dicts
          /\ refs' = Append(refs, r.result)
          /\ last_op' = [op |-> "get_config"]
    /\ UNCHANGED snapshots
    /\ UNCHANGED <<polVars, lossVars, runVars>>

\* config._update(cd) through one of the references
ConfigUpdate ==
    /\ \E i \in 1..Len(refs), cd \in ConfigDicts :
         /\ dicts' = [dicts EXCEPT ![config_objects[refs[i]]] = Config_update(@, cd)]
         /\ last_op' = [op |-> "_update", ref |-> i, cd |-> cd]
    /\ UNCHANGED <<config_global, config_objects, refs, snapshots>>
    /\ UNCHANGED <<polVars, lossVars, runVars>>

\* config._clear() through one of the references
ConfigClear ==
    /\ \E i \in 1..Len(refs) :
         /\ dicts' = [dicts EXCEPT ![config_objects[refs[i]]] = Config_clear(@)]
         /\ last_op' = [op |-> "_clear", ref |-> i]
    /\ UNCHANGED <<config_global, config_objects, refs, snapshots>>
    /\ UNCHANGED <<polVars, lossVars, runVars>>

\* config._as_dict() through one of the references, as make_checkpoint does
\* for the metadata of the checkpoint
ConfigAsDict ==
    /\ Len(snapshots) < MaxSnapshots
    /\ \E i \in 1..Len(refs) :
         LET r == Config_as_dict_copy(dicts, config_objects[refs[i]])
         IN /\ dicts' = r.dicts
            /\ snapshots' = Append(snapshots, r.result)
            /\ last_op' = [op |-> "_as_dict", ref |-> i]
    /\ UNCHANGED <<config_global, config_objects, refs>>
    /\ UNCHANGED <<polVars, lossVars, runVars>>

\* the holder of a snapshot assigns one of its entries
SnapshotMutate ==
    /\ \E i \in 1..Len(snapshots), k \in ConfigKeys, v \in ConfigValues :
         /\ dicts' = [dicts EXCEPT ![snapshots[i]] =
                         Config_update(@, [x \in {k} |-> v])]
         /\ last_op' = [op |-> "mutate", snapshot |-> i]
    /\ UNCHANGED <<config_global, config_objects, refs, snapshots>>
    /\ UNCHANGED <<polVars, lossVars, runVars>>

----------------------------------------------------------------------------
(* Specifications *)

PolicyNext == PolicyReset \/ PolicyStep \/ PolicySetEpsilon \/ PolicySample
InitPolicy == PolicyInit /\ LossIdle /\ RunIdle /\ ConfigInit
SpecPolicy == InitPolicy /\ [][PolicyNext]_vars

LossNext == LossIteration \/ LossReturn
InitLoss == LossInit /\ PolicyIdle /\ RunIdle /\ ConfigInit
SpecLoss == InitLoss /\ [][LossNext]_vars

RunNext == ProgramStep \/ Signal \/ Relaunch
InitRun == RunInit /\ PolicyIdle /\ LossIdle /\ ConfigInit
SpecRun == InitRun /\ [][RunNext]_vars
\* the interpreter keeps executing the program until it returns or raises
SpecRunFair == SpecRun /\ WF_vars(ProgramStep)

ConfigNext ==
    GetConfig \/ ConfigUpdate \/ ConfigClear \/ ConfigAsDict \/ SnapshotMutate
InitConfig == ConfigInit /\ PolicyIdle /\ LossIdle /\ RunIdle
SpecConfig == InitConfig /\ [][ConfigNext]_vars

----------------------------------------------------------------------------
(* Claims about the acting policies and the episodic loss *)

\* C1: two runs of the acting policies that receive the same reset and step
\* calls, with the same action, observation, history and qh parameters, hold
\* the same history features and hidden state and sample the same actions,
\* whatever the latent states of their environments and whatever the
\* parameters of the history-state head are.
C1_ActingUsesOnlyHistory ==
    /\ bpA.target_policy.history_features = bpB.target_policy.history_features
    /\ bpA.target_policy.hidden = bpB.target_policy.hidden
    /\ actA = actB
    /\ bactA = bactB

\* the two runs differ in latent state and in the history-state head, and
\* both target policies have sampled after a reset and at least one step,
\* the behavior policies returning an action
C1_Witness ==
    /\ actA # None
    /\ bactA[1].raised = None
    /\ latA # None /\ latA # latB
    /\ bpA.target_policy.models.qhs_model # bpB.target_policy.models.qhs_model
    /\ \E o \in Observations :
         bpA.target_policy.hidden #
             TargetPolicy_reset(TargetPolicy_init(bpA.target_policy.models), o).hidden

\* the current episode and the values computed for it
Ep == episode[1]
EpLen == Len(Ep.dones)
Q == compute_q_values(models, Ep.actions, Ep.observations, Ep.states)
TQ == compute_q_values(target_models, Ep.actions, Ep.observations, Ep.states)
\* the target-network estimate of every timestep: target_qhs at the action
\* that maximises target_qh
TargetEstimate == greedy_target_values(TQ.qh, TQ.qhs)

\* C2: at every timestep t that is not terminal, the bootstrap term of both
\* heads is the target estimate of timestep t+1 of the same episode, read
\* from index t+1 and from no other index.
C2_BootstrapFromNextTimestep ==
    episode # None =>
        \A t \in 1..EpLen :
            ~Ep.dones[t] =>
                /\ bootstrap_source(Ep)[t] = t + 1
                /\ qhs_loss_bootstrap(Ep, TQ.qh, TQ.qhs)[t] = TargetEstimate[t + 1]
                /\ qh_loss_bootstrap(Ep, TQ.qh, TQ.qhs)[t] = TargetEstimate[t + 1]

\* C3: at every terminal timestep the bootstrap term of both heads is 0 and
\* the regression target of both heads is the reward alone, for every
\* discount and every target network.
C3_TerminalTargetIsReward ==
    episode # None =>
        \A t \in 1..EpLen :
            Ep.dones[t] =>
                \A d \in Discounts, tm \in Snapshots :
                    LET tq == compute_q_values(tm, Ep.actions, Ep.observations,
                                               Ep.states)
                    IN /\ qhs_loss_bootstrap(Ep, tq.qh, tq.qhs)[t] = 0
                       /\ qh_loss_bootstrap(Ep, tq.qh, tq.qhs)[t] = 0
                       /\ qhs_loss_target(Ep, tq.qh, tq.qhs, d)[t] = RInt(Ep.rewards[t])
                       /\ qh_loss_target(Ep, tq.qh, tq.qhs, d)[t] = RInt(Ep.rewards[t])

\* a terminal timestep whose rolled target estimate is not 0, so that the
\* mask is what makes the bootstrap term 0
C3_Witness ==
    /\ episode # None
    /\ Ep.dones[EpLen]
    /\ Roll(TargetEstimate, -1)[EpLen] # 0
    /\ discount # RInt(0)

\* the mean squared error of one head at the actions taken, against y
HeadError(qv, y) ==
    RDivInt(RSum([t \in 1..EpLen |->
                    LET e == RSub(RInt(qv[t][Ep.actions[t]]), y[t])
                    IN RMul(e, e)]),
            EpLen)

\* C4: both heads are regressed at the action taken toward the same target
\* rewards[t] + discount * bootstrap[t] computed from the target models; the
\* loss of an episode is the mean of the two head losses; the returned loss
\* is the unweighted mean of the losses of the episodes.
C4_DualHeadLoss ==
    /\ episode # None =>
         LET y == [t \in 1..EpLen |->
                     RAdd(RInt(Ep.rewards[t]),
                          RMul(discount,
                               RInt(qhs_loss_bootstrap(Ep, TQ.qh, TQ.qhs)[t])))]
         IN /\ qh_loss_target(Ep, TQ.qh, TQ.qhs, discount) = y
            /\ qhs_loss_target(Ep, TQ.qh, TQ.qhs, discount) = y
            /\ RMul(losses[Len(losses)], RInt(2))
                 = RAdd(HeadError(Q.qh, y), HeadError(Q.qhs, y))
    /\ loss # None =>
         RMul(loss[1], RInt(Len(losses))) = RSum(losses)

\* a returned loss over two episodes of different lengths and losses, with
\* target parameters that differ from the online ones
C4_Witness ==
    /\ loss # None
    /\ Len(losses) = 2
    /\ lens[1] # lens[2]
    /\ losses[1] # losses[2]
    /\ models # target_models

----------------------------------------------------------------------------
(* Claims about the training run *)

\* the fields of a runstate that a checkpoint stores
Persisted(rs) ==
    [algo_state_dict |-> algo_state_dict(rs.algo),
     datalogger |-> rs.datalogger,
     timer |-> rs.timer,
     xstats |-> rs.xstats,
     averages |-> rs.averages,
     dispensers |-> rs.dispensers]

\* the fields of a runstate that every launch constructs anew
Rebuilt(rs) ==
    <<rs.env, rs.target_updater, rs.episodes_factories, rs.device,
      rs.negentropy_schedule, rs.q_estimator>>

\* C5: making a runstate from the checkpoint of a runstate gives back its
\* datalogger, timer, xstats, averages, dispensers and algorithm state, with
\* the other fields constructed anew; a resumed launch starts run() with the
\* counters and dispenser positions stored in the checkpoint it loaded, and
\* its datalogger, timer, xstats, averages and dispensers stay the ones of
\* the checkpoint main holds, while the algorithm state dict of that
\* checkpoint stays as loaded.
C5_CheckpointRoundTrip ==
    /\ runstate # None =>
         LET back == make_runstate(Some(make_checkpoint(RS, config)),
                                   config, launch + 1)
         IN /\ Persisted(back) = Persisted(RS)
            /\ \A i \in 1..Len(Rebuilt(back)) : Rebuilt(back)[i] = Built(launch + 1)
    /\ (pc = "run_setup" /\ loaded # None) =>
         /\ Persisted(RS) = loaded[1].data
         /\ checkpoint = loaded
         /\ \A i \in 1..Len(Rebuilt(RS)) : Rebuilt(RS)[i] = Built(launch)
    /\ (runstate # None /\ checkpoint # None) =>
         /\ checkpoint[1].data.datalogger = RS.datalogger
         /\ checkpoint[1].data.timer = RS.timer
         /\ checkpoint[1].data.xstats = RS.xstats
         /\ checkpoint[1].data.averages = RS.averages
         /\ checkpoint[1].data.dispensers = RS.dispensers
         /\ checkpoint[1].data.algo_state_dict = loaded[1].data.algo_state_dict
         /\ checkpoint[1].metadata = loaded[1].metadata

\* a second launch about to enter run() with the state of a first launch
\* that completed an epoch
C5_Witness ==
    /\ pc = "run_setup"
    /\ checkpoint # None
    /\ launch = 2
    /\ RS.xstats.epoch > 0
    /\ RS.xstats.optimizer_steps > 0
    /\ RS.dispensers.datalog.n > 0
    /\ RS.timer.started_in_launch = 1

\* a resumed launch has run an epoch, and the checkpoint main holds has
\* followed the runstate away from the checkpoint as loaded
C5_WitnessShared ==
    /\ pc = "returned"
    /\ loaded # None
    /\ checkpoint # loaded
    /\ checkpoint[1].data.xstats.epoch > loaded[1].data.xstats.epoch

\* C6: once run() has left its loop and passed the final save, the last call
\* of save_checkpoint was made with the counters of the last completed epoch
\* and, with a checkpoint path, the checkpoint on disk holds the xstats of
\* the runstate; so no epoch has run since that save.
C6_FinalCheckpoint ==
    pc \in {"run_save_model", "main_return", "returned"} =>
        /\ saved_at = Some(RS.xstats.epoch)
        /\ config.checkpoint_path # None =>
             /\ disk.checkpoint # None
             /\ disk.checkpoint[1].data.xstats = RS.xstats

\* main has returned after a run with a checkpoint path that completed an
\* epoch and stopped before it was done
C6_Witness ==
    /\ pc = "returned"
    /\ config.checkpoint_path # None
    /\ RS.xstats.epoch > 0
    /\ ~RF.done

\* C7: when main returns, the exit value is 0 if and only if done held at
\* the last flag update, that is, if and only if simulation_timesteps had
\* reached max_simulation_timesteps; otherwise it is 1.
C7_ExitValue ==
    pc = "returned" =>
        /\ retvalue \in {Some(0), Some(1)}
        /\ (retvalue = Some(0)) <=> RF.done
        /\ RF.done <=>
             (RS.xstats.simulation_timesteps >= config.max_simulation_timesteps)

\* main has returned 0 from a run that was done and also timed out or was
\* interrupted
C7_Witness ==
    /\ pc = "returned"
    /\ retvalue = Some(0)
    /\ RF.done
    /\ RF.timeout \/ RF.interrupt

\* the configuration of the loaded checkpoint differs from the current one
\* and the check is asked for
Inconsistent ==
    /\ checkpoint # None
    /\ config.check_checkpoint_consistency
    /\ checkpoint[1].metadata.config # config

\* C8: main goes on to make_runstate and run only if the loaded checkpoint
\* is not inconsistent under the flag, and it raises before make_runstate
\* exactly in that case, with the files on disk as they were when loaded.
C8_ConsistencyCheck ==
    /\ pc = "main_make_runstate" \/ runstate # None => ~Inconsistent
    /\ (pc = "raised" /\ exception = Some("RuntimeError")) =>
         /\ runstate = None
         /\ Inconsistent
         /\ disk.checkpoint = checkpoint
         /\ saved_at = None

\* a relaunch raised on an inconsistent checkpoint
C8_Witness ==
    /\ pc = "raised"
    /\ exception = Some("RuntimeError")
    /\ runstate = None
    /\ launch > 1
    /\ checkpoint # None

\* C9: an epoch starts only from a flag check at which simulation_timesteps
\* is below max_simulation_timesteps and neither timeout nor interrupt is
\* set; a launch that resumes a checkpoint whose simulation_timesteps
\* already reaches max_simulation_timesteps never enters an epoch, and when
\* it returns it has run no epoch, has saved the checkpoint and reports done.
C9_EpochOnlyWhenNotStopped ==
    /\ [][(pc = "run_stop_check" /\ pc' \in EpochPcs) =>
            /\ RS.xstats.simulation_timesteps < config.max_simulation_timesteps
            /\ ~RF.done /\ ~RF.timeout /\ ~RF.interrupt]_vars
    /\ [](pc \in {"epoch_update_controlflow", "epoch_evaluate", "epoch_simulate"} =>
            /\ RS.xstats.simulation_timesteps < config.max_simulation_timesteps
            /\ ~RF.timeout)
    /\ []((/\ loaded # None
           /\ config # Config_init
           /\ loaded[1].data.xstats.simulation_timesteps
                >= config.max_simulation_timesteps) =>
            /\ pc \notin EpochPcs
            /\ pc = "returned" =>
                 /\ RS.xstats = loaded[1].data.xstats
                 /\ saved_at = Some(RS.xstats.epoch)
                 /\ disk.checkpoint # None
                 /\ disk.checkpoint[1].data.xstats = RS.xstats
                 /\ RF.done
                 /\ retvalue = Some(0))

\* a launch resumed from a finished checkpoint has returned
C9_Witness ==
    /\ pc = "returned"
    /\ loaded # None
    /\ loaded[1].data.xstats.simulation_timesteps
         >= config.max_simulation_timesteps
    /\ loaded[1].data.xstats.epoch > 0

\* C10: under a fair execution of the program, run() always leaves its
\* loop; when it has left the loop with neither timeout nor interrupt set,
\* done is set; and simulation_timesteps never decreases during a launch.
C10_LoopTerminates ==
    /\ (pc \in LoopPcs) ~> (pc \notin LoopPcs)
    /\ [](pc \in AfterLoopPcs \cup {"returned"} =>
            (~RF.timeout /\ ~RF.interrupt => RF.done))
    /\ [][(runstate # None /\ runstate' # None) =>
            runstate'[1].xstats.simulation_timesteps
                >= RS.xstats.simulation_timesteps]_vars

\* run() has left the loop done, without timeout or interrupt, after more
\* than one epoch
C10_Witness ==
    /\ pc = "run_final_save"
    /\ RF.done /\ ~RF.timeout /\ ~RF.interrupt
    /\ RS.xstats.epoch - (IF loaded = None THEN 0
                          ELSE loaded[1].data.xstats.epoch) > 1

----------------------------------------------------------------------------
(* Claims about signals and the steps of an epoch *)

\* the calls a complete epoch makes under the flags cf, in the claimed order
ExpectedEpochSteps(cf) ==
    <<"update_controlflow">>
    \o (IF cf.log_data THEN <<"log_xstats">> ELSE <<>>)
    \o (IF cf.evaluate THEN <<"run_evaluation", "log_evaluation">> ELSE <<>>)
    \o <<"run_simulation">>
    \o (IF cf.log_data THEN <<"log_simulation">> ELSE <<>>)
    \o (IF cf.update_target_parameters THEN <<"target_updater">> ELSE <<>>)
    \o <<"run_training">>
    \o (IF cf.log_data THEN <<"log_training">> ELSE <<>>)
    \o (IF cf.save_modelseq THEN <<"save_modelseq">> ELSE <<>>)
    \o <<"update_xstats_epoch">>
    \o (IF cf.log_data THEN <<"commit">> ELSE <<>>)

IsPrefix(a, b) == Len(a) <= Len(b) /\ a = SubSeq(b, 1, Len(a))

Called(step) == \E i \in 1..Len(epoch_steps) : epoch_steps[i] = step

\* the process is in run(), with the flags and the handler set up
InRun == pc \in LoopPcs \cup AfterLoopPcs

\* C11: a signal delivered while run() is looping changes nothing but
\* runflags.interrupt; the flag, once set, stays set for the rest of the
\* launch; with the flag set the epoch in progress runs all of its remaining
\* steps, so whenever the process is outside an epoch the calls of the last
\* epoch are complete; the flag check that follows starts no epoch; and when
\* run() has returned the final checkpoint is saved.
C11_InterruptOnlySetsFlag ==
    /\ [][(InRun /\ ~RF.interrupt /\ runflags' # None /\ runflags'[1].interrupt) =>
            /\ runflags'[1] = [RF EXCEPT !.interrupt = TRUE]
            /\ UNCHANGED <<pc, launch, args, config, disk, checkpoint, runstate,
                           controlflow, sim_episodes, retvalue, saved_at,
                           epoch_steps, exception>>]_vars
    /\ [][(runflags # None /\ RF.interrupt /\ launch' = launch) =>
            (runflags' # None /\ runflags'[1].interrupt)]_vars
    /\ [][(pc = "run_stop_check" /\ RF.interrupt) => pc' \notin EpochPcs]_vars
    /\ []((runflags # None /\ RF.interrupt /\ pc \notin EpochPcs
           /\ epoch_steps # <<>>) =>
            epoch_steps = ExpectedEpochSteps(CF))
    /\ []((pc \in {"main_return", "returned"} /\ RF.interrupt) =>
            saved_at = Some(RS.xstats.epoch))

\* C12: the calls made so far in an epoch are always an initial part of the
\* claimed order under the flags of the epoch, and all of it once the epoch
\* has returned; the training step trains on the episodes simulated in the
\* same epoch, so the training counters catch up with the simulation
\* counters; the target parameters change only in the target-update step,
\* before the training step of the epoch; and evaluation runs before any
\* training of its epoch.
C12_EpochStepOrder ==
    /\ []((pc \in EpochPcs \ {"epoch_update_controlflow"}
           \/ (pc = "raised" /\ exception = Some("AttributeError"))) =>
            IsPrefix(epoch_steps, ExpectedEpochSteps(CF)))
    /\ [](pc = "run_checkpoint_dispense" =>
            epoch_steps = ExpectedEpochSteps(CF))
    /\ [](pc = "epoch_train" =>
            /\ RS.xstats.simulation_timesteps
                 = RS.xstats.training_timesteps + SumInts(sim_episodes[1])
            /\ RS.xstats.simulation_episodes
                 = RS.xstats.training_episodes + Len(sim_episodes[1]))
    /\ [](pc \in {"epoch_save_modelseq", "epoch_update_xstats", "epoch_commit",
                  "run_checkpoint_dispense"} =>
            /\ RS.xstats.training_timesteps = RS.xstats.simulation_timesteps
            /\ RS.xstats.training_episodes = RS.xstats.simulation_episodes)
    /\ [][(runstate # None /\ runstate' # None
           /\ runstate'[1].algo.target # RS.algo.target) =>
            /\ pc = "epoch_target_update"
            /\ ~Called("run_training")
            /\ RS.xstats.optimizer_steps = RS.xstats.epoch]_vars
    /\ [][(runstate # None /\ runstate' # None
           /\ runstate'[1].averages.target # RS.averages.target) =>
            /\ pc = "epoch_evaluate"
            /\ ~Called("run_training")
            /\ RS.xstats.optimizer_steps = RS.xstats.epoch]_vars

\* an epoch that made every optional call has returned
C12_Witness ==
    /\ pc = "run_checkpoint_dispense"
    /\ CF.log_data /\ CF.evaluate /\ CF.update_target_parameters
    /\ CF.save_modelseq
    /\ Len(epoch_steps) = 12

\* xstats.epoch at the start of the epoch in progress or just completed
EpochAtStart ==
    IF Called("update_xstats_epoch") THEN RS.xstats.epoch - 1 ELSE RS.xstats.epoch

\* C13: in every epoch, run_evaluation is called if and only if
\* config.evaluation is set and xstats.epoch at the start of the epoch is a
\* multiple of evaluation_period, whatever the flags of the epoch before
\* were; so epoch 0 evaluates when evaluation is enabled and no epoch
\* evaluates when it is disabled.  The other flags are recomputed likewise:
\* save_modelseq is log_data and config.save_modelseq.
C13_EvaluationPeriod ==
    (pc \in (EpochPcs \ {"epoch_update_controlflow"})
              \cup {"run_checkpoint_dispense"}) =>
        /\ CF.evaluate <=>
             (config.evaluation /\ EpochAtStart % config.evaluation_period = 0)
        /\ (pc # "epoch_evaluate") => (Called("run_evaluation") <=> CF.evaluate)
        /\ (pc = "epoch_evaluate") => ~Called("run_evaluation")
        /\ CF.save_modelseq <=> (CF.log_data /\ config.save_modelseq)
        /\ (EpochAtStart = 0 /\ config.evaluation /\ pc # "epoch_evaluate") =>
             Called("run_evaluation")
        /\ ~config.evaluation => ~Called("run_evaluation")

\* an epoch that does not evaluate, right after one that did
C13_Witness ==
    /\ pc = "run_checkpoint_dispense"
    /\ config.evaluation
    /\ EpochAtStart = 1
    /\ ~Called("run_evaluation")
    /\ RS.averages.target > 0

\* C14: the model file is written only by the save_model step of run(),
\* with done set and config.save_model set, after the final save_checkpoint
\* of the launch; a launch passes that step at most once; and a model file
\* exists only if the checkpoint on disk records that
\* max_simulation_timesteps was reached, so a launch stopped earlier by a
\* timeout or an interrupt has written none.
C14_SaveModelOnlyWhenDone ==
    /\ [][(disk # None /\ disk'.model # disk.model) =>
            /\ pc = "run_save_model"
            /\ RF.done /\ config.save_model
            /\ RS.xstats.simulation_timesteps >= config.max_simulation_timesteps
            /\ saved_at = Some(RS.xstats.epoch)
            /\ disk.checkpoint # None
            /\ disk.checkpoint[1].data.xstats = RS.xstats]_vars
    /\ [][(pc = "run_save_model" /\ ~(RF.done /\ config.save_model)) =>
            (pc' \in {"run_save_model", "main_return"} /\ disk' = disk)]_vars
    /\ [][(pc \in {"main_return", "returned", "raised"} /\ launch' = launch) =>
            pc' # "run_save_model"]_vars
    /\ [][(pc' = "run_save_model" /\ pc # "run_save_model") =>
            pc = "run_final_save"]_vars
    /\ [](disk # None /\ disk.model # None =>
            /\ disk.checkpoint # None
            /\ disk.checkpoint[1].data.xstats.simulation_timesteps
                 >= args.max_simulation_timesteps)

\* a launch stopped by a timeout or an interrupt before it was done has
\* returned with save_model set and no model file written
C14_Witness ==
    /\ pc = "returned"
    /\ config.save_model
    /\ config.model_path # None
    /\ ~RF.done
    /\ RS.xstats.epoch > 0
    /\ disk.model = None

\* the model file has been written by a launch that was done
C14_WitnessSaved ==
    /\ pc = "main_return"
    /\ disk.model # None
    /\ RF.done

\* C15: past the load in main, the checkpoint is None exactly when there is
\* no checkpoint path or no checkpoint file, and then wandb.init gets no
\* resume arguments; a loaded checkpoint is the one on disk and wandb.init
\* gets resume 'must' and the run id of its metadata, so that the run id of
\* the configuration is the one of the run that saved the checkpoint; any
\* other error of the load ends the launch before wandb.init, with no
\* runstate made and nothing saved.
C15_CheckpointLoad ==
    /\ (pc \notin {"idle", "main_load"} /\ exception # Some("OSError")) =>
         /\ checkpoint = None => wandb_kwargs = Some(wandb_kwargs_init)
         /\ checkpoint # None =>
              /\ wandb_kwargs[1].resume = Some("must")
              /\ wandb_kwargs[1].id = Some(checkpoint[1].metadata.wandb_run_id)
         /\ (checkpoint # None /\ config # Config_init) =>
              config.wandb_run_id = checkpoint[1].metadata.wandb_run_id
         /\ (checkpoint = None /\ config # Config_init) =>
              config.wandb_run_id = launch
    /\ (pc \in {"main_wandb_init", "main_check"}) =>
         (checkpoint = None <=>
            (args.checkpoint_path = None \/ disk.checkpoint = None))
    /\ (pc \in {"main_wandb_init", "main_check"} /\ checkpoint # None) =>
         checkpoint = disk.checkpoint
    /\ exception = Some("OSError") =>
         /\ pc = "raised"
         /\ args.checkpoint_path # None /\ disk.checkpoint # None
         /\ checkpoint = None /\ wandb_kwargs = Some(wandb_kwargs_init)
         /\ config = Config_init
         /\ runstate = None /\ runflags = None /\ saved_at = None

\* a relaunch has resumed the wandb run of the launch that saved the
\* checkpoint
C15_Witness ==
    /\ launch = 2
    /\ pc = "run_setup"
    /\ checkpoint # None
    /\ config.wandb_run_id = 1
    /\ wandb_kwargs[1].resume = Some("must")

\* a relaunch ended on an error of the load that main does not catch
C15_WitnessPropagated ==
    /\ pc = "raised"
    /\ exception = Some("OSError")

----------------------------------------------------------------------------
(* Claims about saving without a run path and about the log commit *)

\* C18: in a launch without a run path no save operation raises and none
\* writes: the launch never ends on an exception and the disk stays as it
\* was.
C18_NoRunPathSavesSkipped ==
    (args # None /\ args.run_path = None) =>
        /\ exception = None
        /\ pc # "raised"
        /\ disk = Disk_init

\* C19: when an epoch has returned, no record logged with commit=False is
\* left uncommitted, so every epoch starts with nothing pending; and
\* commit() was called in the epoch exactly when its log_data flag is set.
C19_LoggedRecordsCommitted ==
    /\ pc = "run_checkpoint_dispense" =>
         /\ RS.datalogger.pending = {}
         /\ Called("commit") <=> CF.log_data
    /\ pc = "epoch_update_controlflow" => RS.datalogger.pending = {}

----------------------------------------------------------------------------
(* Claims about the inputs of the history model and about reset *)

\* the observations o_0..o_T of the episode acted since the last reset
ActedObservations == [t \in 1..Len(calls) |-> calls[t].observation]

\* its actions a_0..a_T, where a_T is the action chosen at the last index
ActedActions(aT) ==
    [t \in 1..Len(calls) |->
        IF t < Len(calls) THEN calls[t + 1].action[1] ELSE aT]

\* C16: at every point of an acted episode, the inputs the policy has given
\* to the history model since reset are the inputs compute_q_values builds
\* from the observations and actions of the episode so far: zero action
\* features with o_0, then the features of a_{t-1} with o_t; and this holds
\* whatever the action at the last index is.
C16_TrainingAndActingInputs ==
    calls # <<>> =>
        /\ \A aT \in Actions :
             compute_q_values_inputs(ActedActions(aT), ActedObservations)
               = inputs_fed
        /\ inputs_fed[1] = <<action_model_zeros, observation_model(calls[1].observation)>>
        /\ \A t \in 2..Len(calls) :
             inputs_fed[t] = <<action_model(calls[t].action[1]),
                               observation_model(calls[t].observation)>>

\* an episode of the longest length has been acted, its last step taking
\* action 1 to an observation other than the first one
C16_Witness ==
    /\ Len(calls) = MaxLen
    /\ calls[MaxLen].action = Some(1)
    /\ calls[MaxLen].observation # calls[1].observation

\* a policy object just constructed from the models of policy A
FreshTargetPolicy == TargetPolicy_init(bpA.target_policy.models)

\* C17: right after reset(observation), and until the next step, the
\* history features and the hidden state of the policy are those a newly
\* constructed policy has after reset(observation), and so is the action it
\* samples, whatever episodes the policy object went through before.
C17_ResetForgetsHistory ==
    Len(calls) = 1 =>
        LET fresh == TargetPolicy_reset(FreshTargetPolicy, calls[1].observation)
        IN /\ bpA.target_policy.history_features = fresh.history_features
           /\ bpA.target_policy.hidden = fresh.hidden
           /\ actA # None => actA = Some(TargetPolicy_po_sample_action(fresh))

----------------------------------------------------------------------------
(* Claims about the Config singleton *)

\* the entries seen through the i-th reference returned by get_config()
ConfigOf(i) == dicts[config_objects[refs[i]]]

\* C20: every call of get_config() returns the one Config object held by
\* the module global; after _update(cd) through any reference, every
\* reference sees the values of cd for the keys of cd and the entries it saw
\* before for the other keys; _as_dict() returns a new dict with the entries
\* of the Config; a later _update or _clear leaves every snapshot as it was,
\* and an assignment to a snapshot leaves the Config as it was.
C20_ConfigSingleton ==
    /\ [](/\ Len(config_objects) <= 1
          /\ \A i \in 1..Len(refs) : config_global = Some(refs[i])
          /\ \A i, j \in 1..Len(refs) : refs[i] = refs[j])
    /\ [][last_op'.op = "_update" =>
            \A j \in 1..Len(refs) :
                LET before == dicts[config_objects[refs[j]]]
                    after == dicts'[config_objects'[refs'[j]]]
                    cd == last_op'.cd
                IN /\ DOMAIN after = (DOMAIN before) \cup (DOMAIN cd)
                   /\ \A k \in DOMAIN cd : after[k] = cd[k]
                   /\ \A k \in (DOMAIN before) \ (DOMAIN cd) :
                        after[k] = before[k]]_vars
    /\ [][last_op'.op \in {"_update", "_clear"} =>
            \A i \in 1..Len(snapshots) :
                dicts'[snapshots'[i]] = dicts[snapshots[i]]]_vars
    /\ [][last_op'.op = "mutate" =>
            \A j \in 1..Len(refs) :
                dicts'[config_objects'[refs'[j]]]
                  = dicts[config_objects[refs[j]]]]_vars
    /\ [][last_op'.op = "_as_dict" =>
            LET new == snapshots'[Len(snapshots')]
            IN /\ dicts'[new] = dicts[config_objects[refs[last_op'.ref]]]
               /\ \A o \in 1..Len(config_objects) : config_objects[o] # new
               /\ \A j \in 1..Len(refs) :
                    dicts'[config_objects'[refs'[j]]]
                      = dicts[config_objects[refs[j]]]]_vars

\* with two references held and a snapshot taken, an _update through the
\* second reference has overridden one key and left the snapshot behind
C20_Witness ==
    /\ Len(refs) = 2
    /\ Len(snapshots) = 1
    /\ last_op.op = "_update"
    /\ last_op.ref = 2
    /\ DOMAIN last_op.cd = {"seed"}
    /\ DOMAIN ConfigOf(1) = ConfigKeys
    /\ DOMAIN dicts[snapshots[1]] = ConfigKeys
    /\ dicts[snapshots[1]]["seed"] # ConfigOf(1)["seed"]
    /\ dicts[snapshots[1]]["wandb_run_id"] = ConfigOf(1)["wandb_run_id"]

====
